---------------------------- MODULE Spec2Model ----------------------------
(***************************************************************************)
(* DealNexus intelligence suite: the Conversation Ledger and Escalation    *)
(* Tracker (core_logic/communication_handler.py) and the pipeline          *)
(* orchestrator (app.py), as one state machine.                            *)
(*                                                                         *)
(* Both programs keep their durable state in the same directory, logs/:    *)
(* communication_handler.py resolves PROJECT_ROOT/logs/cross_talk.json and *)
(* app.py resolves BASE_DIR/logs/cross_talk.json, the same file.           *)
(***************************************************************************)
EXTENDS Integers, Sequences, FiniteSets, TLC

VARIABLES
    cross_talk,     \* logs/cross_talk.json: absent, a JSON list, or a JSON object
    turn_counts,    \* CommunicationHandler._conversation_turn_counts (one instance)
    interventions,  \* logs/HUMAN_INTERVENTION_REQUIRED.txt: the summaries appended
    now,            \* the wall clock, in seconds
    last_call,      \* the most recent handler call: what it raised or returned
    call_log,       \* the values returned by send_message on this instance, in order
    session,        \* st.session_state of app.py
    pc,             \* where run_pipeline_steps stands ("idle": no run is executing)
    run,            \* the locals of the executing run_pipeline_steps
    store,          \* logs/<agent>.json, the Stage Result Store
    report          \* workspace/FINAL_REPORT.md

handler_vars == <<turn_counts, now, last_call, call_log>>

pipeline_vars == <<session, pc, run, store, report>>

vars == <<cross_talk, turn_counts, interventions, now, last_call, call_log, session, pc, run, store, report>>

(***************************************************************************)
(* Bounds of the model.                                                    *)
(***************************************************************************)
\* Longest Ledger the escalation specification builds.
MaxTurns == 5
\* Longest Ledger the ledger specification builds.
MaxLedger == 3
\* Last second of the clock.
MaxTime == 1
\* Most sends the handler completes in the combined specification.
MaxCalls == 2
\* Most sends the handler completes in the keys specification.
MaxKeyTurns == 3

(***************************************************************************)
(* Configuration of communication_handler.py.                              *)
(***************************************************************************)
MAX_UNRESOLVED_TURNS == 3

VALID_AGENTS ==
    {"outcomes_strategist", "technical_pm", "legal_counsel", "finance_director", "document_architect"}

ResolutionStatus == {"resolved", "unresolved", "pending"}

\* Python orders str values lexicographically: the five agent names in sorted() order.
AgentOrder ==
    <<"document_architect", "finance_director", "legal_counsel", "outcomes_strategist", "technical_pm">>

AgentRank(a) == CHOOSE n \in 1..Len(AgentOrder) : AgentOrder[n] = a

\* sorted([sender, recipient])
SortedPair(sender, recipient) ==
    IF AgentRank(sender) <= AgentRank(recipient) THEN <<sender, recipient>> ELSE <<recipient, sender>>

(***************************************************************************)
(* logs/cross_talk.json.  kind says what json.load gives: "absent" (no     *)
(* file), "list" (entries holds the list) or "dict" (status and            *)
(* negotiations hold the object app.py wrote).                             *)
(***************************************************************************)
NoFile == [kind |-> "absent", entries |-> <<>>, status |-> "", negotiations |-> <<>>]

ListFile(entries) == [kind |-> "list", entries |-> entries, status |-> "", negotiations |-> <<>>]

DictFile(status, negotiations) ==
    [kind |-> "dict", entries |-> <<>>, status |-> status, negotiations |-> negotiations]

\* Mutant of CommunicationEntry: the status passed in is dropped for the default.
CommunicationEntry_DefaultStatus(sender, recipient, issue, policy, status, t) ==
    [timestamp |-> t,
     conversation_id |-> <<SortedPair(sender, recipient)[1], SortedPair(sender, recipient)[2], t>>,
     sender |-> sender,
     recipient |-> recipient,
     issue_identified |-> issue,
     policy_reference_used |-> policy,
     resolution_status |-> "pending"]

\* CommunicationEntry.__init__ and to_dict, at clock value t.
CommunicationEntry(sender, recipient, issue, policy, status, t) ==
    [timestamp |-> t,
     conversation_id |-> <<SortedPair(sender, recipient)[1], SortedPair(sender, recipient)[2], t>>,
     sender |-> sender,
     recipient |-> recipient,
     issue_identified |-> issue,
     policy_reference_used |-> policy,
     resolution_status |-> status]

\* _load_cross_talk_log: what json.load returns is a list only if the file holds one.
LoadIsList(file) == file.kind \in {"absent", "list"}

LoadedEntries(file) == IF file.kind = "list" THEN file.entries ELSE <<>>

\* Mutant of ConversationKey: the pair is kept in the order given.
ConversationKey_Ordered(sender, recipient, issue) == <<sender, recipient, issue>>

\* _get_conversation_key
ConversationKey(sender, recipient, issue) ==
    <<SortedPair(sender, recipient)[1], SortedPair(sender, recipient)[2], issue>>

\* _count_unresolved_turns: dict.get(key, 0)
CountIn(counts, key) == IF key \in DOMAIN counts THEN counts[key] ELSE 0

CountUnresolvedTurns(key) == CountIn(turn_counts, key)

\* Mutant of UpdatedCounts: the resolved branch is lost.
UpdatedCounts_NoReset(counts, key, status) ==
    IF status = "unresolved" THEN (key :> (CountIn(counts, key) + 1)) @@ counts ELSE counts

\* Mutant of UpdatedCounts: a pending message counts as a turn too.
UpdatedCounts_PendingCounts(counts, key, status) ==
    IF status \in {"unresolved", "pending"} THEN (key :> (CountIn(counts, key) + 1)) @@ counts
    ELSE (key :> 0) @@ counts

\* The counter update of send_message.
UpdatedCounts(counts, key, status) ==
    IF status = "unresolved" THEN (key :> (CountIn(counts, key) + 1)) @@ counts
    ELSE IF status = "resolved" THEN (key :> 0) @@ counts
    ELSE counts

\* Mutant of EscalationDue: the threshold itself does not escalate.
EscalationDue_Above(current_turns) == current_turns > MAX_UNRESOLVED_TURNS

\* The escalation test of send_message.
EscalationDue(current_turns) == current_turns >= MAX_UNRESOLVED_TURNS

\* Mutant of InterventionRecord: the threshold is written where the turn count belongs.
InterventionRecord_Threshold(sender, recipient, issue, policy, turn_count, t) ==
    [timestamp |-> t,
     sender |-> sender,
     recipient |-> recipient,
     issue_identified |-> issue,
     policy_reference |-> policy,
     turn_count |-> MAX_UNRESOLVED_TURNS,
     max_allowed |-> MAX_UNRESOLVED_TURNS]

\* _write_human_intervention_required: the summary appended to the file.
InterventionRecord(sender, recipient, issue, policy, turn_count, t) ==
    [timestamp |-> t,
     sender |-> sender,
     recipient |-> recipient,
     issue_identified |-> issue,
     policy_reference |-> policy,
     turn_count |-> turn_count,
     max_allowed |-> MAX_UNRESOLVED_TURNS]

\* Mutant of ValidationError: the sender == recipient check is lost.
ValidationError_NoSelfCheck(sender, recipient) ==
    IF sender \notin VALID_AGENTS THEN "ValueError"
    ELSE IF recipient \notin VALID_AGENTS THEN "ValueError"
    ELSE "none"

\* The argument check of send_message: the exception it raises, or "none".
ValidationError(sender, recipient) ==
    IF sender \notin VALID_AGENTS THEN "ValueError"
    ELSE IF recipient \notin VALID_AGENTS THEN "ValueError"
    ELSE IF sender = recipient THEN "ValueError"
    ELSE "none"

NoCall ==
    [op |-> "none", raised |-> "none", found |-> FALSE, entry |-> <<>>,
     unresolved_turn_count |-> 0, escalation_triggered |-> FALSE]

Raised(op, exc) ==
    [op |-> op, raised |-> exc, found |-> FALSE, entry |-> <<>>,
     unresolved_turn_count |-> 0, escalation_triggered |-> FALSE]

SendReturn(entry, current_turns, escalated) ==
    [op |-> "send_message", raised |-> "none", found |-> FALSE, entry |-> <<entry>>,
     unresolved_turn_count |-> current_turns, escalation_triggered |-> escalated]

ResolveReturn(found) ==
    [op |-> "resolve_issue", raised |-> "none", found |-> found, entry |-> <<>>,
     unresolved_turn_count |-> 0, escalation_triggered |-> FALSE]

(***************************************************************************)
(* CommunicationHandler.send_message.                                      *)
(***************************************************************************)
send_message(sender, recipient, issue, policy, status) ==
    IF ValidationError(sender, recipient) # "none"
    THEN /\ last_call' = Raised("send_message", ValidationError(sender, recipient))
         /\ UNCHANGED <<cross_talk, turn_counts, interventions, now, call_log>>
    ELSE IF ~LoadIsList(cross_talk)
    THEN \* entries.append on the dict json.load returned: AttributeError
         /\ last_call' = Raised("send_message", "AttributeError")
         /\ UNCHANGED <<cross_talk, turn_counts, interventions, now, call_log>>
    ELSE LET entry == CommunicationEntry(sender, recipient, issue, policy, status, now)
             key == ConversationKey(sender, recipient, issue)
             counts == UpdatedCounts(turn_counts, key, status)
             current_turns == CountIn(counts, key)
             escalated == EscalationDue(current_turns)
             written == IF escalated
                        THEN <<InterventionRecord(sender, recipient, issue, policy, current_turns, now)>>
                        ELSE <<>>
         IN /\ cross_talk' = ListFile(Append(LoadedEntries(cross_talk), entry))
            /\ turn_counts' = counts
            /\ interventions' = interventions \o written
            /\ last_call' = SendReturn(entry, current_turns, escalated)
            /\ call_log' = Append(call_log,
                                  [entry |-> entry,
                                   unresolved_turn_count |-> current_turns,
                                   escalation_triggered |-> escalated,
                                   records_written |-> Len(written)])
            /\ UNCHANGED now

(***************************************************************************)
(* CommunicationHandler.__init__ and log_agent_communication.              *)
(***************************************************************************)
\* Mutant of NewCounts: the counters are rebuilt from the unresolved entries on file.
NewCounts_FromLedger ==
    LET entries == LoadedEntries(cross_talk)
        KeyOf(e) == ConversationKey(e.sender, e.recipient, e.issue_identified)
        keys == {KeyOf(entries[n]) : n \in 1..Len(entries)}
    IN [key \in keys |->
           Cardinality({n \in 1..Len(entries) :
                           KeyOf(entries[n]) = key /\ entries[n].resolution_status = "unresolved"})]

\* self._conversation_turn_counts = {}
NewCounts == <<>>

\* A new handler instance takes the place of the one the model follows.
NewHandler ==
    /\ turn_counts' = NewCounts
    /\ call_log' = <<>>
    /\ last_call' = NoCall
    /\ UNCHANGED <<cross_talk, interventions, now>>

\* log_agent_communication: send_message on a handler created for this one call.
log_agent_communication(sender, recipient, issue, policy, status) ==
    IF ValidationError(sender, recipient) # "none"
    THEN /\ last_call' = Raised("send_message", ValidationError(sender, recipient))
         /\ UNCHANGED <<cross_talk, turn_counts, interventions, now, call_log>>
    ELSE IF ~LoadIsList(cross_talk)
    THEN /\ last_call' = Raised("send_message", "AttributeError")
         /\ UNCHANGED <<cross_talk, turn_counts, interventions, now, call_log>>
    ELSE LET entry == CommunicationEntry(sender, recipient, issue, policy, status, now)
             key == ConversationKey(sender, recipient, issue)
             counts == UpdatedCounts(NewCounts, key, status)
             current_turns == CountIn(counts, key)
             escalated == EscalationDue(current_turns)
             written == IF escalated
                        THEN <<InterventionRecord(sender, recipient, issue, policy, current_turns, now)>>
                        ELSE <<>>
         IN /\ cross_talk' = ListFile(Append(LoadedEntries(cross_talk), entry))
            /\ interventions' = interventions \o written
            /\ last_call' = SendReturn(entry, current_turns, escalated)
            /\ UNCHANGED <<turn_counts, now, call_log>>

(***************************************************************************)
(* CommunicationHandler.resolve_issue.                                     *)
(***************************************************************************)
\* Mutant of Resolved: the loop stops at the first matching entry.
Resolved_FirstOnly(entries, conversation_id) ==
    LET first == CHOOSE n \in 1..Len(entries) :
                    /\ entries[n].conversation_id = conversation_id
                    /\ \A m \in 1..(n - 1) : entries[m].conversation_id # conversation_id
    IN [entries EXCEPT ![first].resolution_status = "resolved"]

\* The loop of resolve_issue: the entries as it leaves them.
Resolved(entries, conversation_id) ==
    [n \in 1..Len(entries) |->
        IF entries[n].conversation_id = conversation_id
        THEN [entries[n] EXCEPT !.resolution_status = "resolved"]
        ELSE entries[n]]

\* Mutant of Found: found is set for any entry, matching or not.
Found_AnyEntry(entries, conversation_id) == Len(entries) > 0

\* The loop of resolve_issue: whether it matched an entry.
Found(entries, conversation_id) ==
    \E n \in 1..Len(entries) : entries[n].conversation_id = conversation_id

\* Mutant of resolve_issue: resolving also clears the handler's counters.
resolve_issue_ResetsCounters(conversation_id) ==
    IF cross_talk.kind = "dict"
    THEN /\ last_call' = Raised("resolve_issue", "TypeError")
         /\ UNCHANGED <<cross_talk, turn_counts, interventions, now, call_log>>
    ELSE /\ cross_talk' = IF Found(LoadedEntries(cross_talk), conversation_id)
                          THEN ListFile(Resolved(LoadedEntries(cross_talk), conversation_id))
                          ELSE cross_talk
         /\ last_call' = ResolveReturn(Found(LoadedEntries(cross_talk), conversation_id))
         /\ turn_counts' = IF Found(LoadedEntries(cross_talk), conversation_id) THEN <<>> ELSE turn_counts
         /\ UNCHANGED <<interventions, now, call_log>>

resolve_issue(conversation_id) ==
    IF cross_talk.kind = "dict"
    THEN \* the loop indexes a key of the dict, a str, by "conversation_id": TypeError
         /\ last_call' = Raised("resolve_issue", "TypeError")
         /\ UNCHANGED <<cross_talk, turn_counts, interventions, now, call_log>>
    ELSE /\ cross_talk' = IF Found(LoadedEntries(cross_talk), conversation_id)
                          THEN ListFile(Resolved(LoadedEntries(cross_talk), conversation_id))
                          ELSE cross_talk
         /\ last_call' = ResolveReturn(Found(LoadedEntries(cross_talk), conversation_id))
         /\ UNCHANGED <<turn_counts, interventions, now, call_log>>

(***************************************************************************)
(* CommunicationHandler.get_conversation_history and get_unresolved_issues *)
(* on a Ledger file that holds a list.  NoFilter is the None default.      *)
(***************************************************************************)
NoFilter == "None"

BySender(entries, sender) == SelectSeq(entries, LAMBDA e : e.sender = sender)

ByRecipient(entries, recipient) == SelectSeq(entries, LAMBDA e : e.recipient = recipient)

get_conversation_history(sender, recipient) ==
    LET all == LoadedEntries(cross_talk)
        s == IF sender # NoFilter THEN BySender(all, sender) ELSE all
    IN IF recipient # NoFilter THEN ByRecipient(s, recipient) ELSE s

get_unresolved_issues ==
    SelectSeq(LoadedEntries(cross_talk), LAMBDA e : e.resolution_status = "unresolved")

\* A second of wall-clock time passes.
Tick ==
    /\ now < MaxTime
    /\ now' = now + 1
    /\ UNCHANGED <<cross_talk, turn_counts, interventions, last_call, call_log>>
    /\ UNCHANGED pipeline_vars

(***************************************************************************)
(* app.py: the stages and what the executor returns.                       *)
(***************************************************************************)
AGENT_NAMES ==
    <<"outcomes_strategist", "technical_pm", "legal_counsel", "finance_director", "document_architect">>

Stages == {AGENT_NAMES[n] : n \in 1..Len(AGENT_NAMES)}

\* The four stages after the strategist.
LaterStages == Stages \ {"outcomes_strategist"}

\* initialize_session_state: the defaults of the keys the orchestration reads.
SessionDefaults ==
    [pipeline_running |-> FALSE,
     pipeline_completed |-> FALSE,
     pipeline_start_time |-> "None",
     pipeline_end_time |-> "None",
     intervention_needed |-> FALSE,
     uploaded_transcript |-> "None",
     show_completion_banner |-> FALSE]

\* A value call_ai_agent returns.  payload: "dict" (the JSON object parsed), "raw"
\* ({"raw_output": text}), "list" (the reply parsed to a JSON array), "none" (an
\* error result has no output).  text: the reply's text, or the error's message.
NoResult ==
    [status |-> "none", payload |-> "none", custom_builds |-> 0,
     compliance_status |-> "None", deal_risk |-> "None", text |-> ""]

Failed(message) == [NoResult EXCEPT !.status = "error", !.text = message]

Completed(payload) == [NoResult EXCEPT !.status = "completed", !.payload = payload]

Feasibility(builds) == [Completed("dict") EXCEPT !.custom_builds = builds]

Compliance(status) == [Completed("dict") EXCEPT !.compliance_status = status]

Economics(risk) == [Completed("dict") EXCEPT !.deal_risk = risk]

Document(text) == [Completed("raw") EXCEPT !.text = text]

\* What the executor may return to each stage.
QuotaError == "429 quota exceeded"

StrategistOutputs == {Completed("dict"), Completed("list"), Failed(QuotaError)}

TechnicalOutputs == {Feasibility(0), Feasibility(2), Completed("raw"), Completed("list"), Failed(QuotaError)}

LegalOutputs == {Compliance("APPROVED"), Compliance("BLOCKED"), Completed("raw"), Failed(QuotaError)}

FinanceOutputs == {Economics("LOW"), Economics("HIGH"), Completed("list"), Failed(QuotaError)}

ReportTexts == {"Executive summary", "Escalation Required", "DRAFT - PENDING", "PENDING $$REVIEW"}

ErrorTexts == {QuotaError, "blocked: content pending review"}

ArchitectOutputs == {Document(t) : t \in ReportTexts} \cup {Failed(e) : e \in ErrorTexts}

\* previous_outputs before any stage has answered; a field of NoResult stands for a
\* key the dict does not have.
NoOutputs == [outcomes |-> NoResult, technical |-> NoResult, legal |-> NoResult, finance |-> NoResult]

\* The locals of run_pipeline_steps; executed lists the stages called, in call order,
\* finance_context and doc_context are the previous_outputs handed to the two calls.
NoRun ==
    [api_key |-> FALSE, outcomes_result |-> NoResult, tech_result |-> NoResult,
     legal_result |-> NoResult, finance_result |-> NoResult, doc_result |-> NoResult,
     finance_context |-> NoOutputs, doc_context |-> NoOutputs,
     executed |-> <<>>, returned |-> "None"]

Absent == NoResult

EmptyStore == [stage \in Stages |-> Absent]

NoReport == [exists |-> FALSE, failure |-> FALSE, text |-> "", stamped |-> FALSE]

\* result.get("output", {}) read as a dict: a failed stage gives {}, a reply parsed to
\* a JSON array gives a list, and list.get raises AttributeError.
OutputIsDict(result) == result.payload # "list"

\* Mutant of ComplianceStatus: a payload without compliance_status is not approved.
ComplianceStatus_MissingBlocks(legal_result) == legal_result.compliance_status

\* legal_data.get("compliance_status", "APPROVED")
ComplianceStatus(legal_result) ==
    IF legal_result.compliance_status = "None" THEN "APPROVED" ELSE legal_result.compliance_status

\* tech_data.get("feasibility_summary", {}).get("custom_builds", []): how many it lists
CustomBuilds(tech_result) == tech_result.custom_builds

\* The pairing test of Step C.
Disagreement(tech_result, legal_result) ==
    CustomBuilds(tech_result) > 0 /\ ComplianceStatus(legal_result) # "APPROVED"

\* An item of "negotiations"; message lists the parts the f-string joins.
Negotiation(agent, message) == [agent |-> agent, message |-> message]

\* str.lower() on the texts the model uses.
Lower(text) ==
    CASE text = "Escalation Required" -> "escalation required"
      [] text = "DRAFT - PENDING" -> "draft - pending"
      [] text = "Executive summary" -> "executive summary"
      [] text = "PENDING LEADERSHIP RESOLUTION" -> "pending leadership resolution"
      [] text = "PENDING REVIEW" -> "pending review"
      [] text = "REQUIRES INTERVENTION" -> "requires intervention"
      [] text = "ESCALATION REQUIRED" -> "escalation required"
      [] text = "UNRESOLVED CONFLICT" -> "unresolved conflict"
      [] OTHER -> text

intervention_markers ==
    {"PENDING LEADERSHIP RESOLUTION", "PENDING REVIEW", "DRAFT - PENDING",
     "REQUIRES INTERVENTION", "ESCALATION REQUIRED", "UNRESOLVED CONFLICT"}

\* needle in haystack, for the texts the model uses.
Contains(haystack, needle) ==
    \/ haystack = needle
    \/ haystack = "blocked: content pending review" /\ needle = "pending review"

\* any(marker.lower() in report_content.lower() for marker in intervention_markers)
HasMarker(text) == \E marker \in intervention_markers : Contains(Lower(text), Lower(marker))

(***************************************************************************)
(* The ACTIVATE INTELLIGENCE button and the file uploader.                 *)
(***************************************************************************)
UploadTranscript ==
    /\ pc = "idle"
    /\ session.uploaded_transcript = "None"
    /\ session' = [session EXCEPT !.uploaded_transcript = "transcript.txt"]
    /\ UNCHANGED <<pc, run, store, report, cross_talk, interventions>>
    /\ UNCHANGED handler_vars

ActivateIntelligence ==
    /\ pc = "idle"
    /\ session.uploaded_transcript # "None"
    /\ ~session.pipeline_running
    /\ session' = [session EXCEPT !.pipeline_running = TRUE]
    /\ UNCHANGED <<pc, run, store, report, cross_talk, interventions>>
    /\ UNCHANGED handler_vars

(***************************************************************************)
(* main: the trigger, and run_pipeline_steps up to its first stage.        *)
(***************************************************************************)
\* Mutant of StartRun: a run that starts clears intervention_needed.
StartRun_ResetsFlag(api_key) ==
    /\ pc = "idle"
    /\ session.pipeline_running /\ ~session.pipeline_completed
    /\ IF ~api_key
       THEN /\ session' = [session EXCEPT !.pipeline_running = FALSE]
            /\ run' = [NoRun EXCEPT !.returned = "False"]
            /\ UNCHANGED pc
       ELSE /\ session' = [session EXCEPT !.pipeline_start_time = "set", !.intervention_needed = FALSE]
            /\ run' = [NoRun EXCEPT !.api_key = TRUE]
            /\ pc' = "strategist"
    /\ UNCHANGED <<store, report, cross_talk, interventions>>
    /\ UNCHANGED handler_vars

\* Mutant of StartRun: the start time is stamped before the API key is looked at.
StartRun_StampFirst(api_key) ==
    /\ pc = "idle"
    /\ session.pipeline_running /\ ~session.pipeline_completed
    /\ IF ~api_key
       THEN /\ session' = [session EXCEPT !.pipeline_running = FALSE, !.pipeline_start_time = "set"]
            /\ run' = [NoRun EXCEPT !.returned = "False"]
            /\ UNCHANGED pc
       ELSE /\ session' = [session EXCEPT !.pipeline_start_time = "set"]
            /\ run' = [NoRun EXCEPT !.api_key = TRUE]
            /\ pc' = "strategist"
    /\ UNCHANGED <<store, report, cross_talk, interventions>>
    /\ UNCHANGED handler_vars

StartRun(api_key) ==
    /\ pc = "idle"
    /\ session.pipeline_running /\ ~session.pipeline_completed
    /\ IF session.uploaded_transcript = "None"
       THEN /\ session' = [session EXCEPT !.pipeline_running = FALSE]
            /\ UNCHANGED <<pc, run>>
       ELSE IF ~api_key
       THEN \* run_pipeline_steps returns False; main clears pipeline_running
            /\ session' = [session EXCEPT !.pipeline_running = FALSE]
            /\ run' = [NoRun EXCEPT !.returned = "False"]
            /\ UNCHANGED pc
       ELSE /\ session' = [session EXCEPT !.pipeline_start_time = "set"]
            /\ run' = [NoRun EXCEPT !.api_key = TRUE]
            /\ pc' = "strategist"
    /\ UNCHANGED <<store, report, cross_talk, interventions>>
    /\ UNCHANGED handler_vars

\* Step A: the strategist.
StepA_Strategist(result) ==
    /\ pc = "strategist"
    /\ run' = [run EXCEPT !.outcomes_result = result,
                          !.executed = Append(@, "outcomes_strategist"),
                          !.returned = IF result.status = "error" THEN "False" ELSE @]
    /\ IF result.status = "error"
       THEN /\ pc' = "idle"
            /\ session' = [session EXCEPT !.pipeline_running = FALSE]
            /\ UNCHANGED store
       ELSE /\ pc' = "technical"
            /\ store' = [store EXCEPT !["outcomes_strategist"] = result]
            /\ UNCHANGED session
    /\ UNCHANGED <<report, cross_talk, interventions>>
    /\ UNCHANGED handler_vars

\* The except clause of run_pipeline_steps, and main after it returned False.
Crashed ==
    /\ pc' = "idle"
    /\ session' = [session EXCEPT !.pipeline_running = FALSE]
    /\ run' = [run EXCEPT !.returned = "False"]

\* Step B: the industry is read from the strategist's output, then feasibility.
StepB_Technical(result) ==
    /\ pc = "technical"
    /\ IF ~OutputIsDict(run.outcomes_result)
       THEN /\ Crashed
            /\ UNCHANGED store
       ELSE /\ run' = [run EXCEPT !.tech_result = result, !.executed = Append(@, "technical_pm")]
            /\ store' = [store EXCEPT !["technical_pm"] = result]
            /\ pc' = "legal"
            /\ UNCHANGED session
    /\ UNCHANGED <<report, cross_talk, interventions>>
    /\ UNCHANGED handler_vars

StepB_Legal(result) ==
    /\ pc = "legal"
    /\ run' = [run EXCEPT !.legal_result = result, !.executed = Append(@, "legal_counsel")]
    /\ store' = [store EXCEPT !["legal_counsel"] = result]
    /\ pc' = "pairing"
    /\ UNCHANGED <<session, report, cross_talk, interventions>>
    /\ UNCHANGED handler_vars

\* Step C: the pairing check.
StepC_PairingCheck ==
    /\ pc = "pairing"
    /\ IF ~OutputIsDict(run.tech_result) \/ ~OutputIsDict(run.legal_result)
       THEN /\ Crashed
            /\ UNCHANGED cross_talk
       ELSE IF Disagreement(run.tech_result, run.legal_result)
       THEN /\ session' = [session EXCEPT !.intervention_needed = TRUE]
            /\ cross_talk' = DictFile("RESOLVED",
                                      <<Negotiation("legal_counsel", <<"Cleared with mitigations.">>)>>)
            /\ pc' = "finance"
            /\ UNCHANGED run
       ELSE /\ cross_talk' = DictFile("NO_CUSTOM_BUILDS", <<>>)
            /\ pc' = "finance"
            /\ UNCHANGED <<session, run>>
    /\ UNCHANGED <<store, report, interventions>>
    /\ UNCHANGED handler_vars

\* all_outputs as Step D builds it; finance_result is NoResult until economics answered.
AllOutputs(outcomes_result, tech_result, legal_result, finance_result) ==
    [outcomes |-> outcomes_result, technical |-> tech_result, legal |-> legal_result,
     finance |-> finance_result]

\* Mutant of SanitizedOutput: a failed stage's result is dropped from the context.
SanitizedOutput_DropFailed(agent_result) ==
    IF agent_result.status = "error" THEN NoResult ELSE agent_result

\* One item of sanitized_outputs: a result with status error becomes
\* {"summary": "Agent '<key>' failed to run.", "status": "error"}.
SanitizedOutput(agent_result) ==
    IF agent_result.status = "error"
    THEN [NoResult EXCEPT !.status = "error", !.text = "failed to run."]
    ELSE agent_result

SanitizedOutputs(all_outputs) ==
    [outcomes |-> SanitizedOutput(all_outputs.outcomes),
     technical |-> SanitizedOutput(all_outputs.technical),
     legal |-> SanitizedOutput(all_outputs.legal),
     finance |-> SanitizedOutput(all_outputs.finance)]

\* Mutant of StepD_Finance: a failed result is not written to the store.
StepD_Finance_SkipFailed(result) ==
    /\ pc = "finance"
    /\ run' = [run EXCEPT !.finance_result = result,
                          !.finance_context =
                              AllOutputs(run.outcomes_result, run.tech_result, run.legal_result, NoResult),
                          !.executed = Append(@, "finance_director")]
    /\ store' = IF result.status = "error" THEN store ELSE [store EXCEPT !["finance_director"] = result]
    /\ pc' = "architect"
    /\ UNCHANGED <<session, report, cross_talk, interventions>>
    /\ UNCHANGED handler_vars

\* Step D: economics.
StepD_Finance(result) ==
    /\ pc = "finance"
    /\ run' = [run EXCEPT !.finance_result = result,
                          !.finance_context =
                              AllOutputs(run.outcomes_result, run.tech_result, run.legal_result, NoResult),
                          !.executed = Append(@, "finance_director")]
    /\ store' = [store EXCEPT !["finance_director"] = result]
    /\ pc' = "architect"
    /\ UNCHANGED <<session, report, cross_talk, interventions>>
    /\ UNCHANGED handler_vars

\* sanitize_for_streamlit_markdown on the texts the model uses: "$$" is removed.
sanitize_for_streamlit_markdown(text) ==
    CASE text = "PENDING $$REVIEW" -> "PENDING REVIEW"
      [] OTHER -> text

\* report_content: the failure report quotes the error, otherwise the sanitized reply.
ReportContent(doc_result) ==
    [exists |-> TRUE,
     failure |-> doc_result.status = "error",
     text |-> IF doc_result.status = "error"
              THEN doc_result.text
              ELSE sanitize_for_streamlit_markdown(doc_result.text),
     stamped |-> FALSE]

\* Step D: synthesis, its error handling, and FINAL_REPORT.md.
StepD_Architect(result) ==
    /\ pc = "architect"
    /\ run' = [run EXCEPT !.doc_result = result,
                          !.doc_context =
                              SanitizedOutputs(AllOutputs(run.outcomes_result, run.tech_result,
                                                          run.legal_result, run.finance_result)),
                          !.executed = Append(@, "document_architect")]
    /\ store' = [store EXCEPT !["document_architect"] = result]
    /\ IF result.status = "error"
       THEN /\ session' = [session EXCEPT !.intervention_needed = TRUE]
            /\ cross_talk' = DictFile("PIPELINE_ERROR",
                                      <<Negotiation("document_architect",
                                                    <<"Report generation failed: ", result.text>>)>>)
       ELSE UNCHANGED <<session, cross_talk>>
    /\ report' = ReportContent(result)
    /\ pc' = "synchronize"
    /\ UNCHANGED interventions
    /\ UNCHANGED handler_vars

\* conflict_details: one item per concrete signal, or the fallback item.
LegalSignal(legal_result) == legal_result.compliance_status \notin {"APPROVED", "None"}

TechnicalSignal(tech_result) == CustomBuilds(tech_result) > 0

\* Mutant of FinanceSignal: only CRITICAL counts.
FinanceSignal_CriticalOnly(finance_result) == finance_result.deal_risk = "CRITICAL"

FinanceSignal(finance_result) == finance_result.deal_risk \in {"HIGH", "CRITICAL"}

ConflictDetails(tech_result, legal_result, finance_result) ==
    LET legal == IF LegalSignal(legal_result)
                 THEN <<Negotiation("legal_counsel",
                                    <<"Compliance Status: ", legal_result.compliance_status>>)>>
                 ELSE <<>>
        tech == IF TechnicalSignal(tech_result)
                THEN <<Negotiation("technical_pm", <<"Custom builds identified: ">>)>>
                ELSE <<>>
        finance == IF FinanceSignal(finance_result)
                   THEN <<Negotiation("finance_director", <<"Deal Risk: ", finance_result.deal_risk>>)>>
                   ELSE <<>>
        found == legal \o tech \o finance
    IN IF found = <<>>
       THEN <<Negotiation("system", <<"General Compliance Block">>)>>
       ELSE found

\* Intervention State Synchronization, and the end of run_pipeline_steps.  With a
\* marker found the flag is set first; finance_data.get on a reply that parsed to a
\* JSON array then raises, and the except clause ends the run.
InterventionSync ==
    /\ pc = "synchronize"
    /\ IF HasMarker(report.text) /\ ~OutputIsDict(run.finance_result)
       THEN /\ session' = [session EXCEPT !.intervention_needed = TRUE, !.pipeline_running = FALSE]
            /\ run' = [run EXCEPT !.returned = "False"]
            /\ UNCHANGED cross_talk
       ELSE IF HasMarker(report.text)
       THEN /\ cross_talk' = DictFile("PENDING_RESOLUTION",
                                      ConflictDetails(run.tech_result, run.legal_result, run.finance_result))
            /\ session' = [session EXCEPT !.intervention_needed = TRUE,
                                          !.pipeline_end_time = "set",
                                          !.pipeline_completed = TRUE,
                                          !.pipeline_running = FALSE,
                                          !.show_completion_banner = TRUE]
            /\ run' = [run EXCEPT !.returned = "True"]
       ELSE /\ cross_talk' = IF ~session.intervention_needed THEN DictFile("CLEAR", <<>>) ELSE cross_talk
            /\ session' = [session EXCEPT !.pipeline_end_time = "set",
                                          !.pipeline_completed = TRUE,
                                          !.pipeline_running = FALSE,
                                          !.show_completion_banner = TRUE]
            /\ run' = [run EXCEPT !.returned = "True"]
    /\ pc' = "idle"
    /\ UNCHANGED <<store, report, interventions>>
    /\ UNCHANGED handler_vars

(***************************************************************************)
(* render_intervention_view: the Mark as Resolved button.                  *)
(***************************************************************************)
draft_patterns ==
    {"DRAFT - PENDING LEADERSHIP RESOLUTION", "DRAFT - PENDING", "PENDING LEADERSHIP RESOLUTION",
     "PENDING REVIEW", "REQUIRES INTERVENTION", "ESCALATION REQUIRED", "UNRESOLVED CONFLICT"}

ResolutionStamp == "Leadership Resolution: Approved"

\* The button is drawn when the file reads as an object with a non-empty "negotiations"
\* and the view did not return early.
MarkAsResolvedShown ==
    /\ cross_talk.kind = "dict"
    /\ cross_talk.negotiations # <<>>
    /\ \/ session.intervention_needed
       \/ cross_talk.status \in {"PENDING_RESOLUTION", "RESOLVED"}
       \/ session.pipeline_completed

\* Mutant of MarkAsResolved: the resolved file starts an empty list.
MarkAsResolved_ClearsLog ==
    /\ pc = "idle"
    /\ MarkAsResolvedShown
    /\ cross_talk' = DictFile("RESOLVED", <<>>)
    /\ session' = [session EXCEPT !.intervention_needed = FALSE]
    /\ report' = IF report.exists THEN [report EXCEPT !.stamped = TRUE] ELSE report
    /\ UNCHANGED <<pc, run, store, interventions>>
    /\ UNCHANGED handler_vars

MarkAsResolved ==
    /\ pc = "idle"
    /\ MarkAsResolvedShown
    /\ cross_talk' = DictFile("RESOLVED", cross_talk.negotiations)
    /\ session' = [session EXCEPT !.intervention_needed = FALSE]
    /\ report' = IF report.exists
                 THEN [report EXCEPT !.stamped = TRUE,
                                     !.text = IF \E pattern \in draft_patterns : Contains(@, pattern)
                                              THEN ResolutionStamp ELSE @]
                 ELSE report
    /\ UNCHANGED <<pc, run, store, interventions>>
    /\ UNCHANGED handler_vars

(***************************************************************************)
(* main: the System Reset button unlinks every file of logs/ and           *)
(* workspace/, clears the session and reruns the script.                   *)
(***************************************************************************)
SystemReset ==
    /\ pc = "idle"
    /\ store' = EmptyStore
    /\ cross_talk' = NoFile
    /\ interventions' = <<>>
    /\ report' = NoReport
    /\ session' = SessionDefaults
    /\ run' = NoRun
    /\ UNCHANGED pc
    /\ UNCHANGED handler_vars

\* A page reload opens a new session: initialize_session_state fills in the defaults,
\* the files stay, the locals of the last call are gone.
NewSession ==
    /\ pc = "idle"
    /\ session # SessionDefaults
    /\ session' = SessionDefaults
    /\ run' = NoRun
    /\ UNCHANGED <<pc, store, report, cross_talk, interventions>>
    /\ UNCHANGED handler_vars

Init ==
    /\ cross_talk = NoFile
    /\ turn_counts = <<>>
    /\ interventions = <<>>
    /\ now = 0
    /\ last_call = NoCall
    /\ call_log = <<>>
    /\ session = SessionDefaults
    /\ pc = "idle"
    /\ run = NoRun
    /\ store = EmptyStore
    /\ report = NoReport

(***************************************************************************)
(* The escalation specification: one handler instance, messages between    *)
(* technical_pm and finance_director about two issues.                     *)
(***************************************************************************)
Issues == {"Custom build requirement: Legacy CRM integration", "Discount demanded"}

Policy == "GOVERNANCE_RULES.md - Section 1: Custom Build Requirement"

LedgerLen == Len(LoadedEntries(cross_talk))

SendTurn ==
    /\ LedgerLen < MaxTurns
    /\ \E issue \in Issues, status \in ResolutionStatus :
          send_message("technical_pm", "finance_director", issue, Policy, status)
    /\ UNCHANGED pipeline_vars

NextEscalation == SendTurn

SpecEscalation == Init /\ [][NextEscalation]_vars

(***************************************************************************)
(* The ledger specification: one handler instance, callers that pass any   *)
(* of three names (one of them no agent) in either role, any status, and   *)
(* any conversation id of the two agents; the clock advances.              *)
(***************************************************************************)
Callers == {"technical_pm", "finance_director", "intruder"}

ConversationIds == {<<"finance_director", "technical_pm", t>> : t \in 0..MaxTime}

SendAny ==
    /\ LedgerLen < MaxLedger
    /\ \E sender \in Callers, recipient \in Callers, status \in ResolutionStatus :
          send_message(sender, recipient, "Discount demanded", Policy, status)
    /\ UNCHANGED pipeline_vars

ResolveAny ==
    /\ \E id \in ConversationIds : resolve_issue(id)
    /\ UNCHANGED pipeline_vars

NextLedger == SendAny \/ ResolveAny \/ Tick

SpecLedger == Init /\ [][NextLedger]_vars

(***************************************************************************)
(* The keys specification: one handler instance, three agents writing to   *)
(* each other in both directions about two issues, every message           *)
(* unresolved; the clock advances.                                         *)
(***************************************************************************)
KeyAgents == {"technical_pm", "finance_director", "legal_counsel"}

SendKeyed ==
    /\ Len(call_log) < MaxKeyTurns
    /\ \E sender \in KeyAgents, recipient \in KeyAgents, issue \in Issues :
          send_message(sender, recipient, issue, Policy, "unresolved")
    /\ UNCHANGED pipeline_vars

NextKeys == SendKeyed \/ Tick

SpecKeys == Init /\ [][NextKeys]_vars

(***************************************************************************)
(* The instances specification: two agents and one issue; messages are     *)
(* logged through log_agent_communication or sent on the handler the model *)
(* follows, which may be replaced by a new one.                            *)
(***************************************************************************)
LogTurn ==
    /\ LedgerLen < MaxTurns
    /\ \E status \in {"unresolved", "resolved"} :
          log_agent_communication("technical_pm", "finance_director", "Discount demanded", Policy, status)
    /\ UNCHANGED pipeline_vars

SendOnInstance ==
    /\ LedgerLen < MaxTurns
    /\ send_message("technical_pm", "finance_director", "Discount demanded", Policy, "unresolved")
    /\ UNCHANGED pipeline_vars

Restart ==
    /\ NewHandler
    /\ UNCHANGED pipeline_vars

NextInstances == LogTurn \/ SendOnInstance \/ Restart

SpecInstances == Init /\ [][NextInstances]_vars

(***************************************************************************)
(* The pipeline specification: one browser session of app.py.              *)
(***************************************************************************)
Strategist == \E result \in StrategistOutputs : StepA_Strategist(result)

Technical == \E result \in TechnicalOutputs : StepB_Technical(result)

Legal == \E result \in LegalOutputs : StepB_Legal(result)

Finance == \E result \in FinanceOutputs : StepD_Finance(result)

Architect == \E result \in ArchitectOutputs : StepD_Architect(result)

Trigger == \E api_key \in BOOLEAN : StartRun(api_key)

NextPipeline ==
    \/ UploadTranscript
    \/ ActivateIntelligence
    \/ Trigger
    \/ Strategist
    \/ Technical
    \/ Legal
    \/ StepC_PairingCheck
    \/ Finance
    \/ Architect
    \/ InterventionSync
    \/ MarkAsResolved
    \/ SystemReset
    \/ NewSession

SpecPipeline == Init /\ [][NextPipeline]_vars

\* One script run goes from the trigger to the return of run_pipeline_steps without
\* waiting for the user: once triggered, the remaining steps of a run are taken.
RunProgress ==
    \/ Trigger
    \/ Strategist
    \/ Technical
    \/ Legal
    \/ StepC_PairingCheck
    \/ Finance
    \/ Architect
    \/ InterventionSync

SpecPipelineFair == Init /\ [][NextPipeline]_vars /\ WF_vars(RunProgress)

(***************************************************************************)
(* The combined specification: the pipeline of app.py and one handler      *)
(* instance work on the same logs/ directory; the handler's callers report *)
(* one issue between feasibility and compliance, and the executor answers  *)
(* each stage in one of two or three ways.                                 *)
(***************************************************************************)
SharedStrategist ==
    \E result \in {Completed("dict"), Failed(QuotaError)} : StepA_Strategist(result)

SharedTechnical ==
    \E result \in {Feasibility(2), Completed("list")} : StepB_Technical(result)

SharedLegal ==
    \E result \in {Compliance("APPROVED"), Compliance("BLOCKED")} : StepB_Legal(result)

SharedFinance == StepD_Finance(Economics("LOW"))

SharedArchitect ==
    \E result \in {Document("Executive summary"), Document("Escalation Required"), Failed(QuotaError)} :
        StepD_Architect(result)

NextShared ==
    \/ UploadTranscript
    \/ ActivateIntelligence
    \/ Trigger
    \/ SharedStrategist
    \/ SharedTechnical
    \/ SharedLegal
    \/ StepC_PairingCheck
    \/ SharedFinance
    \/ SharedArchitect
    \/ InterventionSync
    \/ MarkAsResolved
    \/ SystemReset
    \/ NewSession

SharedIssue == "Custom build requirement: Legacy CRM integration"

SendShared ==
    /\ Len(call_log) < MaxCalls
    /\ \E status \in {"unresolved", "resolved"} :
          send_message("technical_pm", "legal_counsel", SharedIssue, Policy, status)
    /\ UNCHANGED pipeline_vars

ResolveShared ==
    /\ resolve_issue(<<"legal_counsel", "technical_pm", 0>>)
    /\ UNCHANGED pipeline_vars

Next == NextShared \/ SendShared \/ ResolveShared

Spec == Init /\ [][Next]_vars


(***************************************************************************)
(* Reading the log of returned calls.                                      *)
(***************************************************************************)
Unresolved == "unresolved"

KeyOfCall(c) == ConversationKey(c.entry.sender, c.entry.recipient, c.entry.issue_identified)

StatusOfCall(c) == c.entry.resolution_status

\* The statuses of the calls made for a key, in call order.
RECURSIVE KeyStatusesUpTo(_, _)
KeyStatusesUpTo(key, n) ==
    IF n = 0 THEN <<>>
    ELSE IF KeyOfCall(call_log[n]) = key
    THEN Append(KeyStatusesUpTo(key, n - 1), StatusOfCall(call_log[n]))
    ELSE KeyStatusesUpTo(key, n - 1)

KeyStatuses(key) == KeyStatusesUpTo(key, Len(call_log))

\* The last call before or at n that was made for the key with status resolved (0: none).
LastResolvedCall(key, n) ==
    LET resets == {m \in 1..n : KeyOfCall(call_log[m]) = key /\ StatusOfCall(call_log[m]) = "resolved"}
    IN IF resets = {} THEN 0 ELSE CHOOSE m \in resets : \A o \in resets : o <= m

\* How many unresolved calls in a row the key has had when call n returns.
Streak(n) ==
    LET key == KeyOfCall(call_log[n])
    IN Cardinality({m \in (LastResolvedCall(key, n) + 1)..n :
                       KeyOfCall(call_log[m]) = key /\ StatusOfCall(call_log[m]) = Unresolved})

\* The records of the intervention file that name a key's participants and issue.
RecordsFor(key) ==
    SelectSeq(interventions,
              LAMBDA r : ConversationKey(r.sender, r.recipient, r.issue_identified) = key)

KeysCalled == {KeyOfCall(call_log[n]) : n \in 1..Len(call_log)}

IsPrefix(s, t) == Len(s) <= Len(t) /\ s = SubSeq(t, 1, Len(s))

\* C1: on one handler instance, the 1st and 2nd unresolved send_message in a row for a
\* conversation key write no InterventionRecord and return escalation_triggered false;
\* the 3rd writes one and returns escalation_triggered true with turn count 3; so a key
\* whose calls are exactly three unresolved ones has exactly one record in the file.
C1_ThirdUnresolvedEscalates ==
    /\ \A n \in 1..Len(call_log) :
          StatusOfCall(call_log[n]) = Unresolved =>
             /\ Streak(n) \in {1, 2} =>
                   /\ ~call_log[n].escalation_triggered
                   /\ call_log[n].records_written = 0
             /\ Streak(n) = 3 =>
                   /\ call_log[n].escalation_triggered
                   /\ call_log[n].records_written = 1
                   /\ call_log[n].unresolved_turn_count = 3
    /\ \A key \in KeysCalled :
          /\ KeyStatuses(key) \in {<<Unresolved>>, <<Unresolved, Unresolved>>} =>
                RecordsFor(key) = <<>>
          /\ KeyStatuses(key) = <<Unresolved, Unresolved, Unresolved>> =>
                /\ Len(RecordsFor(key)) = 1
                /\ RecordsFor(key)[1].turn_count = 3

C1_Witness ==
    \E key \in KeysCalled :
       /\ KeyStatuses(key) = <<Unresolved, Unresolved, Unresolved>>
       /\ Len(RecordsFor(key)) = 1
       /\ call_log[Len(call_log)].escalation_triggered

TwoResolvedTwo == <<Unresolved, Unresolved, "resolved", Unresolved, Unresolved>>

\* C2: a send_message with status resolved leaves its key's counter at zero (and returns
\* turn count 0), so while a key's calls are 2 unresolved, 1 resolved, 2 unresolved, or a
\* prefix of that, no InterventionRecord is written for it and its counter stays below 3.
C2_ResolvedResetsCounter ==
    /\ \A n \in 1..Len(call_log) :
          StatusOfCall(call_log[n]) = "resolved" =>
             /\ call_log[n].unresolved_turn_count = 0
             /\ call_log[n].records_written = 0
    /\ \A key \in KeysCalled :
          /\ (KeyStatuses(key)[Len(KeyStatuses(key))] = "resolved") => CountUnresolvedTurns(key) = 0
          /\ IsPrefix(KeyStatuses(key), TwoResolvedTwo) =>
                /\ RecordsFor(key) = <<>>
                /\ CountUnresolvedTurns(key) < MAX_UNRESOLVED_TURNS

C2_Witness ==
    \E key \in KeysCalled :
       /\ KeyStatuses(key) = TwoResolvedTwo
       /\ CountUnresolvedTurns(key) = 2
       /\ RecordsFor(key) = <<>>

\* A step in which send_message returned: the call it added to the log.
Returned == Len(call_log') = Len(call_log) + 1

NewCall == call_log'[Len(call_log')]

\* C3: every unresolved send_message that brings its key's counter to c >= 3 appends
\* exactly one InterventionRecord, with the call's participants, issue, policy reference
\* and turn count c, and leaves the counter at c; so the 4th unresolved call in a row
\* writes a second record, with turn count 4.
C3_EveryCrossingAppendsARecord ==
    [][(Returned /\ StatusOfCall(NewCall) = Unresolved
                 /\ CountUnresolvedTurns(KeyOfCall(NewCall)) + 1 >= MAX_UNRESOLVED_TURNS) =>
          LET c == CountUnresolvedTurns(KeyOfCall(NewCall)) + 1
              r == interventions'[Len(interventions')]
          IN /\ Len(interventions') = Len(interventions) + 1
             /\ SubSeq(interventions', 1, Len(interventions)) = interventions
             /\ r.sender = NewCall.entry.sender
             /\ r.recipient = NewCall.entry.recipient
             /\ r.issue_identified = NewCall.entry.issue_identified
             /\ r.policy_reference = NewCall.entry.policy_reference_used
             /\ r.turn_count = c
             /\ CountIn(turn_counts', KeyOfCall(NewCall)) = c
             /\ NewCall.unresolved_turn_count = c
             /\ NewCall.escalation_triggered]_vars

C3_Witness ==
    \E key \in KeysCalled :
       /\ KeyStatuses(key) = <<Unresolved, Unresolved, Unresolved, Unresolved>>
       /\ Len(RecordsFor(key)) = 2
       /\ RecordsFor(key)[1].turn_count = 3
       /\ RecordsFor(key)[2].turn_count = 4
       /\ CountUnresolvedTurns(key) = 4

\* C4: a send_message with status pending changes no unresolved-turn counter and writes
\* no InterventionRecord, whatever its key's counter is.
C4_PendingWritesNothing ==
    [][(Returned /\ StatusOfCall(NewCall) = "pending") =>
          /\ turn_counts' = turn_counts
          /\ interventions' = interventions]_vars

(***************************************************************************)
(* Properties of the Ledger operations.                                    *)
(***************************************************************************)
Ledger == LoadedEntries(cross_talk)

IssueSent == "Discount demanded"

Statuses(entries) == [n \in 1..Len(entries) |-> entries[n].resolution_status]

\* C5: send_message with sender == recipient, or with a sender or recipient that is not
\* one of the five agents, raises ValueError and leaves the Ledger file, every
\* unresolved-turn counter and the intervention file as they were.
C5_RejectedSendWritesNothing ==
    [][\A sender \in Callers, recipient \in Callers, status \in ResolutionStatus :
          ((sender = recipient \/ sender \notin VALID_AGENTS \/ recipient \notin VALID_AGENTS)
              /\ send_message(sender, recipient, IssueSent, Policy, status)) =>
             /\ last_call'.raised = "ValueError"
             /\ cross_talk' = cross_talk
             /\ turn_counts' = turn_counts
             /\ interventions' = interventions]_vars

C5_Witness ==
    /\ last_call.op = "send_message"
    /\ last_call.raised = "ValueError"
    /\ Len(Ledger) = 2
    /\ turn_counts # <<>>

\* C6: for valid sender # recipient and any status, the unfiltered
\* get_conversation_history after send_message is the history before it followed by one
\* entry with the sender, recipient, issue, policy reference and status passed in.
C6_AppendThenList ==
    [][\A sender \in Callers \cap VALID_AGENTS, recipient \in Callers \cap VALID_AGENTS,
          status \in ResolutionStatus :
          (sender # recipient /\ send_message(sender, recipient, IssueSent, Policy, status)) =>
             LET before == get_conversation_history(NoFilter, NoFilter)
                 after == get_conversation_history(NoFilter, NoFilter)'
                 new == after[Len(after)]
             IN /\ Len(after) = Len(before) + 1
                /\ SubSeq(after, 1, Len(before)) = before
                /\ new.sender = sender
                /\ new.recipient = recipient
                /\ new.issue_identified = IssueSent
                /\ new.policy_reference_used = Policy
                /\ new.resolution_status = status
                /\ last_call'.raised = "none"
                /\ last_call'.entry = <<new>>]_vars

C6_Witness ==
    LET history == get_conversation_history(NoFilter, NoFilter)
    IN /\ Len(history) = 3
       /\ history[1].sender = "technical_pm"
       /\ history[2].sender = "finance_director"
       /\ history[3].resolution_status = "unresolved"
       /\ last_call.op = "send_message"
       /\ last_call.entry = <<history[3]>>

\* C7: resolve_issue with a conversation_id that no Ledger entry carries returns False
\* and leaves the Ledger file, every unresolved-turn counter and the intervention file
\* as they were.
C7_ResolveUnknownIdIsNoOp ==
    [][\A id \in ConversationIds :
          ((\A n \in 1..Len(Ledger) : Ledger[n].conversation_id # id) /\ resolve_issue(id)) =>
             /\ last_call'.raised = "none"
             /\ last_call'.found = FALSE
             /\ cross_talk' = cross_talk
             /\ turn_counts' = turn_counts
             /\ interventions' = interventions]_vars

C7_Witness ==
    /\ last_call.op = "resolve_issue"
    /\ last_call.raised = "none"
    /\ ~last_call.found
    /\ Len(Ledger) >= 2
    /\ get_unresolved_issues # <<>>

\* C8: resolve_issue(id) that matches an entry returns True; afterwards every entry with
\* that conversation_id is resolved and none of them is among get_unresolved_issues;
\* entries with another conversation_id, every other field of the matched entries, and
\* the number and order of the entries are as before.
C8_ResolveMarksAllMatching ==
    [][\A id \in ConversationIds :
          ((\E n \in 1..Len(Ledger) : Ledger[n].conversation_id = id) /\ resolve_issue(id)) =>
             /\ last_call'.raised = "none"
             /\ last_call'.found = TRUE
             /\ Len(Ledger') = Len(Ledger)
             /\ \A n \in 1..Len(Ledger) :
                   /\ Ledger[n].conversation_id = id =>
                         /\ Ledger'[n] = [Ledger[n] EXCEPT !.resolution_status = "resolved"]
                         /\ \A m \in 1..Len(get_unresolved_issues') : get_unresolved_issues'[m] # Ledger'[n]
                   /\ Ledger[n].conversation_id # id => Ledger'[n] = Ledger[n]
             /\ \A m \in 1..Len(get_unresolved_issues') :
                   get_unresolved_issues'[m].conversation_id # id]_vars

C8_Witness ==
    /\ last_call.op = "resolve_issue"
    /\ last_call.found
    /\ Len(Ledger) = 3
    /\ Ledger[1].conversation_id = Ledger[2].conversation_id
    /\ Ledger[3].conversation_id # Ledger[1].conversation_id
    /\ call_log[1].entry.resolution_status = Unresolved
    /\ call_log[2].entry.resolution_status = Unresolved
    /\ Statuses(Ledger) = <<"resolved", "resolved", Unresolved>>

(***************************************************************************)
(* The Ledger file under both programs, and runs whose strategist fails.   *)
(***************************************************************************)
\* entry is still the n-th entry of the file, with at most its status changed.
KeptAt(entry, file, n) ==
    /\ file.kind = "list"
    /\ n <= Len(file.entries)
    /\ [file.entries[n] EXCEPT !.resolution_status = entry.resolution_status] = entry

\* C9: across every step of send_message, resolve_issue and the pipeline (the System
\* Reset button aside), each entry of logs/cross_talk.json stays at its position with
\* only its resolution_status changing, and the file stays one that send_message can
\* load as a list and append to.
C9_LedgerAppendOnly ==
    [][\/ SystemReset
       \/ /\ LoadIsList(cross_talk')
          /\ \A n \in 1..Len(Ledger) : KeptAt(Ledger[n], cross_talk', n)]_vars

\* The run has ended on the strategist's error.
StrategistFailed ==
    /\ pc = "idle"
    /\ run.executed # <<>>
    /\ run.outcomes_result.status = "error"

\* C10: when the strategist returns status error, run_pipeline_steps returns False,
\* pipeline_completed stays false, none of the four later stages is executed, and the
\* Stage Result Store holds no StageResult for any of the four at the end of the run.
C10_StrategistFailureLeavesNoLaterResult ==
    StrategistFailed =>
       /\ run.returned = "False"
       /\ ~session.pipeline_completed
       /\ run.executed = <<"outcomes_strategist">>
       /\ \A stage \in LaterStages : store[stage] = Absent

(***************************************************************************)
(* What a run hands on, the order of its stages, and how it ends.          *)
(***************************************************************************)
Executed(stage) == \E n \in 1..Len(run.executed) : run.executed[n] = stage

\* A context item that marks a failed stage and carries nothing a reply produced.
IsFailurePlaceholder(item) ==
    /\ item.status = "error"
    /\ item.payload = "none"
    /\ item.custom_builds = 0
    /\ item.compliance_status = "None"
    /\ item.deal_risk = "None"

\* C11: when feasibility or compliance failed in the run, the previous_outputs handed
\* to economics and to synthesis hold for that stage an item with status error and no
\* payload of any successful execution of the stage.
C11_FailedStageHandedAsPlaceholder ==
    /\ (Executed("finance_director") /\ run.tech_result.status = "error") =>
          IsFailurePlaceholder(run.finance_context.technical)
    /\ (Executed("finance_director") /\ run.legal_result.status = "error") =>
          IsFailurePlaceholder(run.finance_context.legal)
    /\ (Executed("document_architect") /\ run.tech_result.status = "error") =>
          IsFailurePlaceholder(run.doc_context.technical)
    /\ (Executed("document_architect") /\ run.legal_result.status = "error") =>
          IsFailurePlaceholder(run.doc_context.legal)

\* Feasibility failed, compliance answered, and both later stages were called.
C11_Witness ==
    /\ Executed("document_architect")
    /\ run.tech_result.status = "error"
    /\ run.legal_result = Compliance("BLOCKED")
    /\ run.doc_context.legal = Compliance("BLOCKED")
    /\ run.doc_context.technical.status = "error"
    /\ run.finance_context.technical = Failed(QuotaError)

\* The run has returned with the strategist's reply completed.
EndedAfterStrategistCompleted ==
    /\ pc = "idle"
    /\ run.returned # "None"
    /\ run.outcomes_result.status = "completed"

\* C12: the stages of a run are called in the order of AGENT_NAMES, each at most once,
\* and a run whose strategist completed has called all four later stages by its end.
C12_FixedOrderAllStagesOnce ==
    /\ IsPrefix(run.executed, AGENT_NAMES)
    /\ EndedAfterStrategistCompleted => run.executed = AGENT_NAMES

\* What logs/cross_talk.json lists: the handler's entries, or the "negotiations" of the
\* object the pipeline writes.
LedgerItems(file) == IF file.kind = "dict" THEN file.negotiations ELSE LoadedEntries(file)

\* The pairing check runs to its end (no exception).
PairingCheckDone == pc = "pairing" /\ pc' = "finance" /\ StepC_PairingCheck

InRunAfterPairing == pc \in {"finance", "architect", "synchronize"}

\* C13: the pairing check, when compliance is not approved and feasibility lists a
\* custom build, appends exactly one item to the Ledger file and the flag
\* intervention_needed is true from then to the end of the run; otherwise it appends
\* nothing and leaves the flag as it was.
C13_PairingAppendsOneEntry ==
    [][/\ (PairingCheckDone /\ Disagreement(run.tech_result, run.legal_result)) =>
             /\ Len(LedgerItems(cross_talk')) = Len(LedgerItems(cross_talk)) + 1
             /\ SubSeq(LedgerItems(cross_talk'), 1, Len(LedgerItems(cross_talk))) = LedgerItems(cross_talk)
             /\ session'.intervention_needed
       /\ (PairingCheckDone /\ ~Disagreement(run.tech_result, run.legal_result)) =>
             /\ Len(LedgerItems(cross_talk')) <= Len(LedgerItems(cross_talk))
             /\ session'.intervention_needed = session.intervention_needed
       /\ (InRunAfterPairing' /\ Disagreement(run'.tech_result, run'.legal_result)) =>
             session'.intervention_needed]_vars

\* A step on which run_pipeline_steps returns, by return or through its except clause.
RunEnds == pc # "idle" /\ pc' = "idle"

\* The last step of a run that reached the scan of the report it wrote.
RunEndsAfterScan == pc = "synchronize" /\ RunEnds

\* C14: a run whose synthesis artifact contains a marker phrase, in any letter case,
\* ends with intervention_needed true and with at least one recorded InterventionRecord
\* under the status PENDING_RESOLUTION.
C14_MarkerForcesIntervention ==
    [][(RunEndsAfterScan /\ run.doc_result.status = "completed" /\ HasMarker(report.text)) =>
          /\ session'.intervention_needed
          /\ cross_talk'.kind = "dict"
          /\ cross_talk'.status = "PENDING_RESOLUTION"
          /\ cross_talk'.negotiations # <<>>]_vars

\* The agents named by a list of InterventionRecords.
AgentsOf(records) == {records[n].agent : n \in 1..Len(records)}

CleanRun ==
    /\ run.legal_result = Compliance("APPROVED")
    /\ run.tech_result = Feasibility(0)
    /\ run.doc_result.status = "completed"
    /\ ~HasMarker(report.text)

\* C16: a full run with compliance approved, no custom build and an artifact free of
\* markers ends with intervention_needed false and with the disposition CLEAR written
\* to logs/cross_talk.json, which is not the file of a system that never checked.
C16_CleanRunRecordsClear ==
    [][(RunEndsAfterScan /\ CleanRun) =>
          /\ run'.returned = "True"
          /\ ~session'.intervention_needed
          /\ cross_talk' = DictFile("CLEAR", <<>>)
          /\ cross_talk' # NoFile]_vars

\* The disposition Step D records for a failed synthesis.
SynthesisFailure(doc_result) ==
    DictFile("PIPELINE_ERROR",
             <<Negotiation("document_architect", <<"Report generation failed: ", doc_result.text>>)>>)

\* C17: a run whose synthesis stage returned status error ends with intervention_needed
\* true and with the synthesis failure and its error detail as the recorded
\* disposition, whatever the earlier replies and the text of the error.
C17_SynthesisErrorIsTheDisposition ==
    [][(RunEndsAfterScan /\ run.doc_result.status = "error") =>
          /\ session'.intervention_needed
          /\ cross_talk' = SynthesisFailure(run.doc_result)]_vars

\* The results of the stages the current run has called.
StageResults ==
    {run.outcomes_result, run.tech_result, run.legal_result, run.finance_result, run.doc_result}

SomeStageFailed == \E result \in StageResults : result.status = "error"

\* C18: a run that ends reporting success (run_pipeline_steps returns True, with
\* pipeline_completed and the completion banner set) has no stage with status error,
\* or else ends with intervention_needed true and a disposition other than CLEAR.
C18_NoSuccessOverFailure ==
    [][(RunEnds /\ run'.returned = "True") =>
          /\ session'.pipeline_completed
          /\ session'.show_completion_banner
          /\ \/ ~SomeStageFailed
             \/ session'.intervention_needed /\ cross_talk'.status # "CLEAR"]_vars

\* FINAL_REPORT.md says that the run failed: it is the failure report of Step D.
StatesFailure(final_report) == final_report.exists /\ final_report.failure

\* C19: a run in which economics or synthesis returned status error still finalizes
\* (returns True, end time set, pipeline_completed), and the FINAL_REPORT.md it leaves
\* is written by this run and states the failure.
C19_DegradedArtifactStatesFailure ==
    [][(RunEnds /\ (run.finance_result.status = "error" \/ run.doc_result.status = "error")) =>
          /\ run'.returned = "True"
          /\ session'.pipeline_end_time = "set"
          /\ session'.pipeline_completed
          /\ report' = ReportContent(run.doc_result)
          /\ StatesFailure(report')]_vars

\* C20: with no API key the trigger starts no run: no stage is called, no StageResult,
\* report, Ledger file or intervention file is written, intervention_needed and the
\* start time stay as they were, and the run is not marked completed.
C20_NoKeyNoPartialRun ==
    [][StartRun(FALSE) =>
          /\ run'.returned = "False"
          /\ run'.executed = <<>>
          /\ pc' = "idle"
          /\ store' = store
          /\ report' = report
          /\ cross_talk' = cross_talk
          /\ interventions' = interventions
          /\ session'.intervention_needed = session.intervention_needed
          /\ session'.pipeline_start_time = session.pipeline_start_time
          /\ session'.pipeline_end_time = session.pipeline_end_time
          /\ ~session'.pipeline_completed
          /\ ~session'.pipeline_running]_vars

\* The trigger has just failed for want of a key, in a session that never started a
\* run, over a store an earlier session had filled.
C20_Witness ==
    /\ pc = "idle"
    /\ run.returned = "False"
    /\ run.executed = <<>>
    /\ ~run.api_key
    /\ session.uploaded_transcript # "None"
    /\ ~session.pipeline_running
    /\ session.pipeline_start_time = "None"
    /\ store["technical_pm"] # Absent

(***************************************************************************)
(* The durable records, the store, and the counters of a handler.          *)
(***************************************************************************)
\* The InterventionRecords the Orchestrator has written to logs/cross_talk.json.
OrchestratorRecords(file) == IF file.kind = "dict" THEN file.negotiations ELSE <<>>

\* C21: on every step of send_message, resolve_issue and the pipeline (the System Reset
\* button aside) the records of HUMAN_INTERVENTION_REQUIRED.txt and the records the
\* Orchestrator has written stay where they are; new ones are only added after them.
C21_InterventionRecordsAppendOnly ==
    [][\/ SystemReset
       \/ /\ IsPrefix(interventions, interventions')
          /\ IsPrefix(OrchestratorRecords(cross_talk), OrchestratorRecords(cross_talk'))]_vars

\* The result the current run has for a stage.
ResultOf(stage) ==
    CASE stage = "outcomes_strategist" -> run.outcomes_result
      [] stage = "technical_pm" -> run.tech_result
      [] stage = "legal_counsel" -> run.legal_result
      [] stage = "finance_director" -> run.finance_result
      [] stage = "document_architect" -> run.doc_result

\* C22: when a run finalizes, the store holds for each of the five stages the one result
\* that this run got for it; and a step that writes a stage's result replaces that
\* stage's earlier result by the result just returned and changes no other stage's.
C22_OneResultPerStagePerRun ==
    [][/\ (RunEnds /\ run'.returned = "True") =>
             \A stage \in Stages :
                /\ store'[stage] # Absent
                /\ store'[stage] = ResultOf(stage)'
       /\ ~SystemReset =>
             \A stage \in Stages :
                store'[stage] # store[stage] =>
                   /\ run'.executed = Append(run.executed, stage)
                   /\ store'[stage] = ResultOf(stage)'
                   /\ \A other \in Stages \ {stage} : store'[other] = store[other]]_vars

\* A run has finalized with a failed economics stage over a store whose five results
\* are all this run's.
C22_Witness ==
    /\ pc = "idle"
    /\ run.returned = "True"
    /\ run.finance_result.status = "error"
    /\ run.tech_result = Feasibility(2)
    /\ \A stage \in Stages : store[stage] = ResultOf(stage) /\ store[stage] # Absent

\* The two participants of a returned call, without their roles.
Participants(c) == {c.entry.sender, c.entry.recipient}

\* The calls up to the n-th that had the same two participants and the same issue text.
SamePairAndIssue(n) ==
    {m \in 1..n : /\ Participants(call_log[m]) = Participants(call_log[n])
                  /\ call_log[m].entry.issue_identified = call_log[n].entry.issue_identified}

\* C23: with every message unresolved, the turn count a send returns is the number of
\* sends so far between the same two agents, in either direction, about the same issue
\* text, whatever their conversation_id; sends between other agents or about another
\* issue do not count; and the send escalates exactly when that number reaches 3.
C23_KeyedByPairAndIssue ==
    \A n \in 1..Len(call_log) :
       /\ call_log[n].unresolved_turn_count = Cardinality(SamePairAndIssue(n))
       /\ call_log[n].escalation_triggered <=> Cardinality(SamePairAndIssue(n)) >= MAX_UNRESOLVED_TURNS

\* Two messages one way and a third the other way, the last with another
\* conversation_id, escalate.
C23_Witness ==
    /\ Len(call_log) = 3
    /\ call_log[1].entry.sender = "technical_pm" /\ call_log[1].entry.recipient = "finance_director"
    /\ call_log[2].entry.sender = "technical_pm" /\ call_log[2].entry.recipient = "finance_director"
    /\ call_log[3].entry.sender = "finance_director" /\ call_log[3].entry.recipient = "technical_pm"
    /\ \A n \in 1..3 : call_log[n].entry.issue_identified = IssueSent
    /\ call_log[3].entry.conversation_id # call_log[1].entry.conversation_id
    /\ call_log[3].escalation_triggered
    /\ Len(interventions) = 1

\* The keys a handler may hold a counter for in the instances specification.
InstanceKeys == {ConversationKey("technical_pm", "finance_director", IssueSent)}

\* A step of log_agent_communication that returned.
Logged ==
    /\ \E status \in {"unresolved", "resolved"} :
          log_agent_communication("technical_pm", "finance_director", IssueSent, Policy, status)
    /\ last_call'.raised = "none"

\* C24: a new handler instance has every counter at zero whatever the Ledger file
\* holds and leaves the file as it is; a message logged through
\* log_agent_communication is appended to the file, returns a turn count of at most 1,
\* never escalates, writes no InterventionRecord and changes no counter of another
\* instance.
C24_CountersAreInstanceLocal ==
    [][/\ NewHandler =>
             /\ \A key \in InstanceKeys : CountIn(turn_counts', key) = 0
             /\ cross_talk' = cross_talk
             /\ interventions' = interventions
       /\ Logged =>
             /\ Len(Ledger') = Len(Ledger) + 1
             /\ SubSeq(Ledger', 1, Len(Ledger)) = Ledger
             /\ last_call'.unresolved_turn_count <= 1
             /\ ~last_call'.escalation_triggered
             /\ interventions' = interventions
             /\ turn_counts' = turn_counts]_vars

\* Four unresolved entries of one key on file, no record written, and a handler with
\* the key's counter at zero.
C24_Witness ==
    /\ Len(Ledger) = 4
    /\ \A n \in 1..4 : Ledger[n].resolution_status = Unresolved
    /\ interventions = <<>>
    /\ \A key \in InstanceKeys : CountUnresolvedTurns(key) = 0
    /\ call_log = <<>>

\* C25: the Mark as Resolved button sets intervention_needed to false and the recorded
\* status to RESOLVED, and every negotiation entry recorded before it is still there,
\* unchanged and in place, after it.
C25_MarkAsResolvedKeepsLog ==
    [][MarkAsResolved =>
          /\ ~session'.intervention_needed
          /\ cross_talk'.kind = "dict"
          /\ cross_talk'.status = "RESOLVED"
          /\ cross_talk.negotiations # <<>>
          /\ cross_talk'.negotiations = cross_talk.negotiations]_vars

\* The three records of a scan have been marked resolved.
C25_Witness ==
    /\ pc = "idle"
    /\ cross_talk.kind = "dict"
    /\ cross_talk.status = "RESOLVED"
    /\ Len(cross_talk.negotiations) = 3
    /\ ~session.intervention_needed
    /\ session.pipeline_completed
    /\ report.stamped

\* How many unresolved calls the key has had on this instance since its last resolved
\* call, or since the instance was created.
StreakOf(key) ==
    Cardinality({m \in (LastResolvedCall(key, Len(call_log)) + 1)..Len(call_log) :
                    KeyOfCall(call_log[m]) = key /\ StatusOfCall(call_log[m]) = Unresolved})

\* The keys that have a counter or a returned call.
AllKeys == KeysCalled \cup DOMAIN turn_counts

\* C26: in every state the counter of every conversation key is the number of
\* unresolved send_message calls made for it on this instance since its most recent
\* resolved one; it is never negative; and a step that is no returning send_message
\* (a rejected send, resolve_issue, the clock) changes no counter.
C26_CounterIsTheStreak ==
    /\ [](\A key \in AllKeys :
             /\ CountUnresolvedTurns(key) = StreakOf(key)
             /\ CountUnresolvedTurns(key) >= 0)
    /\ [][~Returned => turn_counts' = turn_counts]_vars

\* Unresolved, pending, unresolved for one key, then a resolve_issue that found its
\* entries: the counter stands at 2.
C26_Witness ==
    /\ Len(call_log) = 3
    /\ KeyOfCall(call_log[1]) = KeyOfCall(call_log[3])
    /\ KeyOfCall(call_log[2]) = KeyOfCall(call_log[3])
    /\ StatusOfCall(call_log[1]) = Unresolved
    /\ StatusOfCall(call_log[2]) = "pending"
    /\ StatusOfCall(call_log[3]) = Unresolved
    /\ CountUnresolvedTurns(KeyOfCall(call_log[3])) = 2
    /\ last_call.op = "resolve_issue"
    /\ last_call.found

\* C27: resolve_issue changes no counter; so an unresolved send_message for a key whose
\* counter stands at 2 returns turn count 3 and writes an InterventionRecord, also
\* when resolve_issue has left no entry of the Ledger unresolved.
C27_ResolveLeavesCounters ==
    [][/\ \A id \in ConversationIds : resolve_issue(id) => turn_counts' = turn_counts
       /\ (Returned /\ StatusOfCall(NewCall) = Unresolved
                    /\ CountUnresolvedTurns(KeyOfCall(NewCall)) = 2) =>
             /\ NewCall.unresolved_turn_count = 3
             /\ NewCall.escalation_triggered
             /\ Len(interventions') = Len(interventions) + 1
             /\ interventions'[Len(interventions')].turn_count = 3]_vars

\* Two unresolved sends, both resolved by resolve_issue, and the third unresolved send
\* escalated over a Ledger that held no unresolved entry.
C27_Witness ==
    /\ Len(call_log) = 3
    /\ \A n \in 1..3 : StatusOfCall(call_log[n]) = Unresolved
    /\ Statuses(Ledger) = <<"resolved", "resolved", Unresolved>>
    /\ call_log[3].escalation_triggered
    /\ call_log[3].unresolved_turn_count = 3
    /\ Len(interventions) = 1

(***************************************************************************)
(* The flag across runs, the pairing check on missing data, termination.   *)
(***************************************************************************)
\* A step of main's trigger or of run_pipeline_steps.
RunStep == pc # "idle" \/ pc' # "idle"

NoComplianceStatus(legal_result) ==
    \/ legal_result.status = "error"
    \/ OutputIsDict(legal_result) /\ legal_result.compliance_status = "None"

PairingStep == pc = "pairing" /\ pc' # "pairing"

\* C29: in the pairing check a failed compliance stage, or a compliance payload with no
\* compliance_status, counts as approved, and a failed feasibility stage counts as
\* listing no custom builds: the step sets no flag and logs no disagreement, and when
\* it writes the file it writes NO_CUSTOM_BUILDS, whatever the other stage answered.
C29_MissingDataIsApproved ==
    [][(PairingStep /\ (NoComplianceStatus(run.legal_result) \/ run.tech_result.status = "error")) =>
          /\ session'.intervention_needed = session.intervention_needed
          /\ cross_talk' \in {cross_talk, DictFile("NO_CUSTOM_BUILDS", <<>>)}
          /\ (OutputIsDict(run.tech_result) /\ OutputIsDict(run.legal_result)) =>
                (pc' = "finance" /\ cross_talk' = DictFile("NO_CUSTOM_BUILDS", <<>>))]_vars

\* The pairing check has passed custom builds against a failed compliance stage.
C29_Witness ==
    /\ pc = "finance"
    /\ run.tech_result = Feasibility(2)
    /\ run.legal_result = Failed(QuotaError)
    /\ ~session.intervention_needed
    /\ cross_talk = DictFile("NO_CUSTOM_BUILDS", <<>>)

\* A state main's trigger acts on, or a run in progress.
Triggered == session.pipeline_running /\ ~session.pipeline_completed

\* Every run that main's trigger takes up is released, however it ends.
TriggeredRunIsReleased == Triggered ~> ~session.pipeline_running

\* No run starts in a session whose run has completed.
NoRunAfterCompletion == [][session.pipeline_completed => pc' = "idle"]_vars

\* C30: from every state with pipeline_running = true the session reaches a state with
\* pipeline_running = false.
C30_RunningIsReleased == session.pipeline_running ~> ~session.pipeline_running

=============================================================================
